---- MODULE Spec2Model ----
(***************************************************************************)
(* X-Ray Face AI (App.tsx): the per-frame facial metric computation of the *)
(* faceMesh.onResults callback, the React state it writes, and the         *)
(* FaceMesh/Camera pipelines that the useEffect of the App component sets  *)
(* up on every change of isFaceMeshOn.                                     *)
(*                                                                         *)
(* JavaScript numbers are IEEE-754 binary64.  The metric arithmetic is     *)
(* modelled bit-exactly: a finite double is a sign, a 53-bit significand   *)
(* and a binary exponent, and every operation rounds to nearest, ties to   *)
(* even.  Significands do not fit the model checker's machine integers, so *)
(* naturals are little-endian sequences of 15-bit limbs.                   *)
(***************************************************************************)
EXTENDS Integers, Sequences, FiniteSets, TLC

----------------------------------------------------------------------------
(* Multi-limb naturals: <<l1, ..., ln>> is l1 + l2*Base + ... , ln # 0.    *)

Base == 2^15


RECURSIVE Trim(_)
Trim(a) ==
    IF a = <<>> THEN a
    ELSE IF a[Len(a)] = 0 THEN Trim(SubSeq(a, 1, Len(a) - 1)) ELSE a

RECURSIVE AddC(_, _, _)
AddC(a, b, c) ==
    IF a = <<>> /\ b = <<>> THEN (IF c = 0 THEN <<>> ELSE <<c>>)
    ELSE LET x == IF a = <<>> THEN 0 ELSE Head(a)
             y == IF b = <<>> THEN 0 ELSE Head(b)
             s == x + y + c
         IN  <<s % Base>> \o AddC(IF a = <<>> THEN a ELSE Tail(a),
                                  IF b = <<>> THEN b ELSE Tail(b),
                                  s \div Base)

BAdd(a, b) == AddC(a, b, 0)

\* a - b for a >= b
RECURSIVE SubC(_, _, _)
SubC(a, b, c) ==
    IF a = <<>> THEN <<>>
    ELSE LET y == IF b = <<>> THEN 0 ELSE Head(b)
             d == Head(a) - y - c
         IN  <<IF d < 0 THEN d + Base ELSE d>>
                 \o SubC(Tail(a), IF b = <<>> THEN b ELSE Tail(b),
                         IF d < 0 THEN 1 ELSE 0)

BSub(a, b) == Trim(SubC(a, b, 0))

\* a * k + c for a limb k
RECURSIVE MulC(_, _, _)
MulC(a, k, c) ==
    IF a = <<>> THEN (IF c = 0 THEN <<>> ELSE <<c>>)
    ELSE LET s == Head(a) * k + c
         IN  <<s % Base>> \o MulC(Tail(a), k, s \div Base)

RECURSIVE MulR(_, _)
MulR(a, b) ==
    IF b = <<>> THEN <<>>
    ELSE BAdd(MulC(a, Head(b), 0), <<0>> \o MulR(a, Tail(b)))

BMul(a, b) == Trim(MulR(a, b))

\* -1, 0, 1 as a < b, a = b, a > b
RECURSIVE CmpFrom(_, _, _)
CmpFrom(a, b, i) ==
    IF i = 0 THEN 0
    ELSE IF a[i] < b[i] THEN -1
    ELSE IF a[i] > b[i] THEN 1
    ELSE CmpFrom(a, b, i - 1)

BCmp(a, b) ==
    IF Len(a) < Len(b) THEN -1
    ELSE IF Len(a) > Len(b) THEN 1
    ELSE CmpFrom(a, b, Len(a))

RECURSIVE LimbLen(_)
LimbLen(x) == IF x = 0 THEN 0 ELSE 1 + LimbLen(x \div 2)

BitLen(a) == IF a = <<>> THEN 0 ELSE 15 * (Len(a) - 1) + LimbLen(a[Len(a)])

Zeros(n) == [i \in 1..n |-> 0]

\* a * 2^n
Shl(a, n) ==
    IF a = <<>> THEN a
    ELSE Zeros(n \div 15) \o MulC(a, 2^(n % 15), 0)

\* a \div 2^n
Shr(a, n) ==
    LET q == n \div 15
        r == n % 15
        t == IF q >= Len(a) THEN <<>> ELSE SubSeq(a, q + 1, Len(a))
    IN  Trim([i \in 1..Len(t) |->
                (t[i] \div 2^r)
                + (IF i < Len(t) THEN (t[i + 1] % 2^r) * 2^(15 - r) ELSE 0)])

\* bit i of a (bit 0 is the lowest)
Bit(a, i) ==
    LET q == i \div 15
    IN  IF q >= Len(a) THEN 0 ELSE (a[q + 1] \div 2^(i % 15)) % 2

\* the low n bits of a are all zero
LowZero(a, n) ==
    LET q == n \div 15
    IN  /\ \A i \in 1..q : i > Len(a) \/ a[i] = 0
        /\ (q >= Len(a) \/ a[q + 1] % 2^(n % 15) = 0)

\* a \div k and a % k for a limb-sized k, from the top limb down
RECURSIVE DivC(_, _, _, _)
DivC(a, k, i, rem) ==
    IF i = 0 THEN <<<<>>, rem>>
    ELSE LET cur  == rem * Base + a[i]
             rest == DivC(a, k, i - 1, cur % k)
         IN  <<rest[1] \o <<cur \div k>>, rest[2]>>

TrimQuotient(r) == <<Trim(r[1]), r[2]>>

BDivMod(a, k) == TrimQuotient(DivC(a, k, Len(a), 0))

\* floor(sqrt(n)) and its square: the bits of the root r from bit b down,
\* sq = r * r kept along; t = r + 2^b and tsq = t * t
RECURSIVE SqrtBits(_, _, _, _)
RECURSIVE SqrtStep(_, _, _, _, _, _)
SqrtStep(n, r, sq, t, tsq, b) ==
    IF BCmp(tsq, n) <= 0 THEN SqrtBits(n, t, tsq, b - 1) ELSE SqrtBits(n, r, sq, b - 1)

SqrtBits(n, r, sq, b) ==
    IF b < 0 THEN <<r, sq>>
    ELSE SqrtStep(n, r, sq,
                  BAdd(r, Shl(<<1>>, b)),
                  BAdd(BAdd(sq, Shl(r, b + 1)), Shl(<<1>>, 2 * b)),
                  b)

BSqrt(n) == SqrtBits(n, <<>>, <<>>, (BitLen(n) + 1) \div 2)

\* a natural that fits one machine integer
RECURSIVE ToIntFrom(_, _)
ToIntFrom(a, i) == IF i > Len(a) THEN 0 ELSE a[i] + Base * ToIntFrom(a, i + 1)

ToInt(a) == ToIntFrom(a, 1)

RECURSIVE FromInt(_)
FromInt(k) == IF k = 0 THEN <<>> ELSE <<k % Base>> \o FromInt(k \div Base)

----------------------------------------------------------------------------
(* binary64: [s, m, e] is (-1)^s * m * 2^e with m of exactly 53 bits, or   *)
(* zero.  Every value of the metric computation is finite and normal.      *)

Precision == 53  \* the significand of a JavaScript number

FZero == [s |-> 0, m |-> <<>>, e |-> 0]

\* a significand of one bit too many after rounding up is renormalised
Carry(s, q, e) ==
    IF BitLen(q) > Precision
    THEN [s |-> s, m |-> Shr(q, 1), e |-> e + 1]
    ELSE [s |-> s, m |-> q, e |-> e]

\* q = n \div 2^d, rounded to nearest, ties to even
RoundUp(n, d, q) ==
    IF Bit(n, d - 1) = 1 /\ (~LowZero(n, d - 1) \/ Bit(q, 0) = 1)
    THEN BAdd(q, <<1>>) ELSE q

RoundBits(s, n, e, L) ==
    IF L = 0 THEN FZero
    ELSE IF L <= Precision
    THEN [s |-> s, m |-> Shl(n, Precision - L), e |-> e - (Precision - L)]
    ELSE Carry(s, RoundUp(n, L - Precision, Shr(n, L - Precision)), e + L - Precision)

\* n * 2^e rounded to nearest, ties to even
Round(s, n, e) == RoundBits(s, n, e, BitLen(n))

FNeg(x) == IF x.m = <<>> THEN x ELSE [x EXCEPT !.s = 1 - x.s]

FAbs(x) == [x EXCEPT !.s = 0]

\* the sum of (-1)^sx * X and (-1)^sy * Y, scaled by 2^e; c compares X and Y
AddSigned(sx, X, sy, Y, e, c) ==
    Round(IF sx = sy \/ c >= 0 THEN sx ELSE sy,
          IF sx = sy THEN BAdd(X, Y)
          ELSE IF c >= 0 THEN BSub(X, Y) ELSE BSub(Y, X),
          e)

AddAligned(x, y, X, Y, e) == AddSigned(x.s, X, y.s, Y, e, BCmp(X, Y))

AddAt(x, y, e) == AddAligned(x, y, Shl(x.m, x.e - e), Shl(y.m, y.e - e), e)

FAdd(x, y) ==
    IF x.m = <<>> THEN y
    ELSE IF y.m = <<>> THEN x
    ELSE AddAt(x, y, IF x.e < y.e THEN x.e ELSE y.e)

FSub(x, y) == FAdd(x, FNeg(y))

FMul(x, y) ==
    IF x.m = <<>> \/ y.m = <<>> THEN FZero
    ELSE Round((x.s + y.s) % 2, BMul(x.m, y.m), x.e + y.e)

\* the root rs[1] of n with a sticky bit for an inexact root (rs[2] # n)
RootSticky(n, rs, e) ==
    Round(0, BAdd(Shl(rs[1], 1), IF rs[2] = n THEN <<>> ELSE <<1>>), e)

RootOf(n, e) == RootSticky(n, BSqrt(n), e)

\* Math.sqrt of x >= 0: the root of m * 2^k, k chosen to leave an even
\* exponent and two guard bits
SqrtShift(x, k) == RootOf(Shl(x.m, k), ((x.e - k) \div 2) - 1)

FSqrt(x) ==
    IF x.m = <<>> THEN FZero
    ELSE SqrtShift(x, IF (x.e % 2) = 0 THEN 58 ELSE 57)

\* -1, 0, 1 as |x| < |y|, |x| = |y|, |x| > |y|, for nonzero x and y
MagCmp(x, y) ==
    IF x.e < y.e THEN -1 ELSE IF x.e > y.e THEN 1 ELSE BCmp(x.m, y.m)

\* -1, 0, 1 as x < y, x = y, x > y
FCmp(x, y) ==
    IF x.m = <<>> THEN (IF y.m = <<>> THEN 0 ELSE IF y.s = 1 THEN 1 ELSE -1)
    ELSE IF y.m = <<>> THEN (IF x.s = 1 THEN -1 ELSE 1)
    ELSE IF x.s # y.s THEN (IF x.s = 1 THEN -1 ELSE 1)
    ELSE IF x.s = 0 THEN MagCmp(x, y) ELSE MagCmp(y, x)

\* Math.min and Math.max
FMin(x, y) == IF FCmp(x, y) <= 0 THEN x ELSE y
FMax(x, y) == IF FCmp(x, y) >= 0 THEN x ELSE y

\* the double of an integer literal
FInt(k) == IF k < 0 THEN Round(1, FromInt(-k), 0) ELSE Round(0, FromInt(k), 0)

\* quotient and remainder of num * 2^70 by den, as a sticky significand
RatioSticky(qr) ==
    Round(0, BAdd(Shl(qr[1], 1), IF qr[2] = 0 THEN <<>> ELSE <<1>>), -71)

\* the double nearest num/den: what a decimal literal such as 0.7 denotes
FRatio(num, den) == RatioSticky(BDivMod(Shl(FromInt(num), 70), den))

\* the integer part of |x| and whether x is an integer
FloorOf(x, whole, exact) ==
    IF x.s = 0 THEN whole ELSE IF exact THEN -whole ELSE -whole - 1

\* Math.floor, as an integer (the scores it is applied to are below 2^31)
FFloor(x) ==
    IF x.m = <<>> THEN 0
    ELSE FloorOf(x,
                 IF x.e >= 0 THEN ToInt(Shl(x.m, x.e)) ELSE ToInt(Shr(x.m, -x.e)),
                 x.e >= 0 \/ LowZero(x.m, -x.e))

\* Math.pow(v, 2): the engine's pow returns v * v for the exponent 2
Pow2(v) == FMul(v, v)

----------------------------------------------------------------------------
(* Landmarks.  A landmark set is the array results.multiFaceLandmarks[0]:  *)
(* its length and the points at the indices the callback reads.  The       *)
(* coordinates are kept in hundredths; Coord gives the double the callback *)
(* reads.  landmarks[i] is undefined for i >= length.                      *)

Indices == {1, 13, 14, 33, 61, 263, 291}

MeshLength == 478  \* the landmark count of FaceMesh with refineLandmarks

Coord(k) == FRatio(k, 100)

Defined(landmarks, i) == i < landmarks.len

\* reading .x or .y of an undefined element throws a TypeError
Throws(landmarks) == \E i \in Indices : ~Defined(landmarks, i)

Face(lmx, rmx, rmy, tly, bly, lex, rex) ==
    [len |-> MeshLength,
     pt  |-> [i \in Indices |->
                CASE i = 61  -> [x |-> lmx, y |-> 60]
                  [] i = 291 -> [x |-> rmx, y |-> rmy]
                  [] i = 13  -> [x |-> 50,  y |-> tly]
                  [] i = 14  -> [x |-> 50,  y |-> bly]
                  [] i = 33  -> [x |-> lex, y |-> 50]
                  [] i = 263 -> [x |-> rex, y |-> 50]
                  [] OTHER   -> [x |-> 50,  y |-> 50]]]

\* a landmark array cut off after n entries
Truncated(landmarks, n) == [landmarks EXCEPT !.len = n]

----------------------------------------------------------------------------
(* The metric computation of the onResults callback.                       *)

F0   == FInt(0)
F5   == FInt(5)
F15  == FInt(15)
F100 == FInt(100)
F200 == FInt(200)
F500 == FInt(500)
F1p5 == FRatio(3, 2)
F0p7 == FRatio(7, 10)
F0p3 == FRatio(3, 10)

mouthWidth(landmarks) ==
    LET leftMouth  == landmarks.pt[61]
        rightMouth == landmarks.pt[291]
    IN  FSqrt(FAdd(Pow2(FSub(Coord(rightMouth.x), Coord(leftMouth.x))),
                   Pow2(FSub(Coord(rightMouth.y), Coord(leftMouth.y)))))

mouthHeight(landmarks) ==
    LET topLip    == landmarks.pt[13]
        bottomLip == landmarks.pt[14]
    IN  FSqrt(Pow2(FSub(Coord(bottomLip.y), Coord(topLip.y))))

\* the smile signal without the upper clamp
smileValueUnclamped(landmarks) ==
    FMax(F0,
        FMul(FSub(FMul(mouthWidth(landmarks), F1p5), mouthHeight(landmarks)), F200))

smileValue(landmarks) ==
    FMin(F100, FMax(F0,
        FMul(FSub(FMul(mouthWidth(landmarks), F1p5), mouthHeight(landmarks)), F200)))

\* the right-eye distance taken with the wrong sign
symmetryScoreSigned(landmarks) ==
    LET leftEye  == landmarks.pt[33]
        rightEye == landmarks.pt[263]
        center   == landmarks.pt[1]
    IN  FMax(F0, FSub(F100,
            FMul(FAbs(FSub(FSub(Coord(center.x), Coord(leftEye.x)),
                           FSub(Coord(center.x), Coord(rightEye.x)))), F500)))

symmetryScore(landmarks) ==
    LET leftEye  == landmarks.pt[33]
        rightEye == landmarks.pt[263]
        center   == landmarks.pt[1]
    IN  FMax(F0, FSub(F100,
            FMul(FAbs(FSub(FSub(Coord(center.x), Coord(leftEye.x)),
                           FSub(Coord(rightEye.x), Coord(center.x)))), F500)))

\* the blend taken from the floored scores
PerfectionFloored(sym, smile) ==
    FFloor(FAdd(FMul(FInt(FFloor(sym)), F0p7), FMul(FInt(FFloor(smile)), F0p3)))

Perfection(sym, smile) == FFloor(FAdd(FMul(sym, F0p7), FMul(smile, F0p3)))

\* the threshold taken inclusively
StatusInclusive(smile) == IF FCmp(smile, F15) >= 0 THEN "Radiant" ELSE "Neutral"

Status(smile) == IF FCmp(smile, F15) > 0 THEN "Radiant" ELSE "Neutral"

Emotion(smile) ==
    IF FCmp(smile, F15) > 0 THEN "Happy"
    ELSE IF FCmp(smile, F5) < 0 THEN "Sad/Focused" ELSE "Neutral"

\* the object handed to setStats
NewStats(sym, smile) ==
    [perfection |-> Perfection(sym, smile),
     symmetry   |-> FFloor(sym),
     status     |-> Status(smile),
     emotion    |-> Emotion(smile),
     smileLevel |-> FFloor(smile)]

Locals(sym, smile) ==
    [smileValue |-> smile, symmetryScore |-> sym, stats |-> NewStats(sym, smile)]

\* the locals of one run of the callback that reaches setStats
Analyse(landmarks) == Locals(symmetryScore(landmarks), smileValue(landmarks))

----------------------------------------------------------------------------
(* What the landmark provider can hand to the callback.                    *)

MaxToggles == 1  \* clicks of the mesh button
NumScenes == 3   \* faces the camera sees in the application runs
MaxWidth == 20   \* mouth widths of the metric runs, in hundredths
MaxGap == 4      \* lip gaps of the metric runs, in hundredths

\* results.multiFaceLandmarks: absent, or an array of landmark arrays
NoResults    == [present |-> FALSE, faces |-> <<>>]
EmptyResults == [present |-> TRUE,  faces |-> <<>>]
Detected(landmarks) == [present |-> TRUE, faces |-> <<landmarks>>]

Scene(n) ==
    CASE n = 1 -> Face(40, 60, 60, 58, 62, 30, 70)
      [] n = 2 -> Face(0, 20, 60, 3, 7, 25, 75)
      [] n = 3 -> Face(4, 9, 60, 58, 58, 30, 80)
      [] n = 4 -> Face(20, 23, 60, 0, 2, 45, 90)
      [] n = 5 -> Face(10, 90, 60, 50, 50, 20, 75)
      [] OTHER -> Face(40, 43, 64, 50, 60, 40, 60)

Scenes == {Scene(n) : n \in 1..NumScenes}

\* arrays that stop short of a required index
ShortFaces == {Truncated(Scene(1), 200), Truncated(Scene(2), 10)}

AppResults ==
    {NoResults, EmptyResults} \cup {Detected(f) : f \in Scenes \cup ShortFaces}

MouthPlaces == {<<40, 58>>, <<0, 3>>, <<4, 58>>, <<20, 0>>}
EyePlaces == {<<30, 70>>, <<25, 75>>}

GridFaces ==
    {Face(p[1], p[1] + w, 60, p[2], p[2] + g, e[1], e[2]) :
        p \in MouthPlaces, w \in 0..MaxWidth, g \in 0..MaxGap, e \in EyePlaces}

MetricResults == {Detected(f) : f \in GridFaces \cup {Scene(n) : n \in 1..6}}

\* the analysis of the application's scenes, computed once
SceneAnalysis == [f \in Scenes |-> Analyse(f)]

Analysis(landmarks) ==
    IF landmarks \in Scenes THEN SceneAnalysis[landmarks] ELSE Analyse(landmarks)

----------------------------------------------------------------------------
(* The App component.                                                      *)

VARIABLES
    isFaceMeshOn,  \* useState(true)
    stats,         \* useState({...})
    pipes,         \* one FaceMesh + Camera per run of the effect
    canvas,        \* what the overlay canvas shows
    error,         \* what the last run of the callback threw
    drew,          \* the step just taken drew the mesh connectors
    updates,       \* calls of setStats for the current video frame
    computed,      \* the last run that reached setStats: its landmarks and
                   \* locals, and the toggle it found
    sample         \* one run that reached setStats, kept for comparison: its
                   \* landmarks, the stats it wrote, the stats and the toggle
                   \* it found

vars == <<isFaceMeshOn, stats, pipes, canvas, error, drew, updates, computed, sample>>

InitialStats ==
    [perfection |-> 0, symmetry |-> 0, status |-> "Analyzing...",
     emotion |-> "Calculating...", smileLevel |-> 0]

NoFace == [len |-> 0, pt |-> [i \in Indices |-> [x |-> 0, y |-> 0]]]

NotComputed == [face |-> FALSE, landmarks |-> NoFace,
                smileValue |-> FZero, symmetryScore |-> FZero, mesh |-> TRUE]

NoSample == [face |-> FALSE, landmarks |-> NoFace, stats |-> InitialStats,
             before |-> InitialStats, mesh |-> TRUE]

\* the refs of the rendered <video> and <canvas>: set while App is mounted
RefsAttached == TRUE

\* a new FaceMesh whose callback closes over the current isFaceMeshOn, and
\* a new Camera; nothing stops the ones of earlier runs
Effect(meshOn) == [mesh |-> meshOn, st |-> "idle"]

HasFace(results) == results.present /\ Len(results.faces) > 0

\* the callback reaches setStats
Computes(results) == HasFace(results) /\ ~Throws(results.faces[1])

NoLocals == [smileValue |-> FZero, symmetryScore |-> FZero, stats |-> InitialStats]

\* the locals of the run, if it reaches setStats
Run(results) ==
    IF Computes(results) THEN Analysis(results.faces[1]) ELSE NoLocals

\* a run without a face puts the placeholder back
StatsAfterReset(results, prev, A) ==
    IF Computes(results) THEN A.stats ELSE InitialStats

\* a run blends the new perfection with the displayed one
StatsAfterSmoothed(results, prev, A) ==
    IF Computes(results)
    THEN [A.stats EXCEPT !.perfection = (@ + prev.perfection) \div 2]
    ELSE prev

\* the stats after one run of the callback with the locals A
StatsAfter(results, prev, A) == IF Computes(results) THEN A.stats ELSE prev

\* the callback draws the connectors
Draws(results, meshOn) == HasFace(results) /\ meshOn

Init ==
    /\ isFaceMeshOn = TRUE
    /\ stats = InitialStats
    /\ pipes = <<Effect(TRUE)>>
    /\ canvas = "blank"
    /\ error = "none"
    /\ drew = FALSE
    /\ updates = 0
    /\ computed = NotComputed
    /\ sample = NoSample

\* the video shows a new frame
NewFrame ==
    /\ \E i \in 1..Len(pipes) : pipes[i].st \in {"sent", "done"}
    /\ pipes' = [i \in 1..Len(pipes) |->
                    [pipes[i] EXCEPT !.st = CASE @ = "sent" -> "stale"
                                              [] @ = "done" -> "idle"
                                              [] OTHER -> @]]
    /\ updates' = 0
    /\ drew' = FALSE
    /\ UNCHANGED <<isFaceMeshOn, stats, canvas, error, computed, sample>>

\* Camera.onFrame of pipeline i: faceMesh.send({image}) for a frame it has
\* not sent yet; the camera waits for it before it takes the next frame
OnFrame(i) ==
    /\ pipes[i].st = "idle"
    /\ pipes' = [pipes EXCEPT ![i].st = "sent"]
    /\ drew' = FALSE
    /\ UNCHANGED <<isFaceMeshOn, stats, canvas, error, updates, computed, sample>>

\* The pipeline after a run.  A TypeError leaves the callback through
\* faceMesh.send and the awaiting onFrame (line 80); whether the Camera then
\* asks for further frames is the library's business, so both are possible.
AfterRun(st, results) ==
    {IF st = "sent" THEN "done" ELSE "idle"}
        \cup (IF HasFace(results) /\ Throws(results.faces[1]) THEN {"stopped"} ELSE {})

\* faceMesh.onResults of pipeline i, A the locals of the run.  The canvas is
\* cleared and the connectors are drawn before the landmarks are read, so
\* a run that throws has drawn; setStats replaces the whole stats object,
\* so the re-render it schedules shows exactly the object it was given.
Callback(i, results, A) ==
    /\ pipes[i].st \in {"sent", "stale"}
    /\ RefsAttached
    /\ pipes' \in {[pipes EXCEPT ![i].st = after] : after \in AfterRun(pipes[i].st, results)}
    /\ canvas' = IF Draws(results, pipes[i].mesh) THEN "mesh" ELSE "clear"
    /\ drew' = Draws(results, pipes[i].mesh)
    /\ error' = IF HasFace(results) /\ Throws(results.faces[1])
                THEN "TypeError" ELSE "none"
    /\ stats' = StatsAfter(results, stats, A)
    /\ updates' = IF Computes(results) /\ pipes[i].st = "sent"
                  THEN updates + 1 ELSE updates
    /\ computed' = IF Computes(results)
                   THEN [face |-> TRUE, landmarks |-> results.faces[1],
                         smileValue |-> A.smileValue,
                         symmetryScore |-> A.symmetryScore,
                         mesh |-> isFaceMeshOn]
                   ELSE computed
    /\ sample' \in IF Computes(results)
                   THEN {sample, [face |-> TRUE, landmarks |-> results.faces[1],
                                  stats |-> stats',
                                  before |-> stats, mesh |-> isFaceMeshOn]}
                   ELSE {sample}
    /\ UNCHANGED isFaceMeshOn

OnResults(i, results) == Callback(i, results, Run(results))

\* a click on the mesh button: setIsFaceMeshOn, the render, and the effect
\* that runs again because isFaceMeshOn is its dependency; the effect
\* returns no cleanup, so the earlier pipelines stay
Toggle ==
    /\ Len(pipes) <= MaxToggles
    /\ isFaceMeshOn' = ~isFaceMeshOn
    /\ pipes' = Append(pipes, Effect(~isFaceMeshOn))
    /\ drew' = FALSE
    /\ UNCHANGED <<stats, canvas, error, updates, computed, sample>>

Next ==
    \/ NewFrame
    \/ Toggle
    \/ \E i \in 1..Len(pipes) : OnFrame(i)
    \/ \E i \in 1..Len(pipes) : \E results \in AppResults : OnResults(i, results)

Spec == Init /\ [][Next]_vars

\* the metric computation alone: the first frame of the first pipeline
MetricNext ==
    \/ OnFrame(1)
    \/ \E results \in MetricResults : OnResults(1, results)

MetricSpec == Init /\ [][MetricNext]_vars

----------------------------------------------------------------------------
(* Properties.                                                             *)

UnitCoords(landmarks) ==
    \A i \in Indices : /\ landmarks.pt[i].x \in 0..100
                       /\ landmarks.pt[i].y \in 0..100

\* C1: for a landmark set with every required index and coordinates in
\* [0,1], the stats written by the callback have perfection, symmetry and
\* smileLevel in 0..100, status Radiant or Neutral, and emotion Happy,
\* Neutral or Sad/Focused.
C1_ScoresInRange ==
    (computed.face /\ UnitCoords(computed.landmarks)) =>
        /\ stats.perfection \in 0..100
        /\ stats.symmetry \in 0..100
        /\ stats.smileLevel \in 0..100
        /\ stats.status \in {"Radiant", "Neutral"}
        /\ stats.emotion \in {"Happy", "Neutral", "Sad/Focused"}

\* a run whose raw smile signal (240) is cut to 100
C1_Witness ==
    /\ computed.face
    /\ UnitCoords(computed.landmarks)
    /\ computed.landmarks = Scene(5)
    /\ stats.smileLevel = 100

\* C2: a frame with a non-empty landmark set that lacks a required index
\* produces no scores and throws no error.
C2_ShortFaceNoError == error = "none"

\* C3: a frame without a face leaves the stats alone: the stats are those
\* of the most recent run that computed them, or the initial placeholder.
C3_StatsOfLastFace ==
    stats = IF computed.face THEN Analysis(computed.landmarks).stats
            ELSE InitialStats

\* the only pipeline draws the mesh on every face, so a cleared canvas
\* means that the last frame had no face; a face had been scored before
C3_Witness ==
    /\ Len(pipes) = 1
    /\ canvas = "clear"
    /\ error = "none"
    /\ computed.face
    /\ stats = Analysis(Scene(1)).stats

\* C4: the thresholds are strict: a smileValue of exactly 15 is Neutral and
\* Neutral, above 15 Radiant and Happy, below 5 Sad/Focused, exactly 5
\* Neutral.
C4_StrictThresholds ==
    computed.face =>
        /\ (computed.smileValue = F15) =>
                (stats.status = "Neutral" /\ stats.emotion = "Neutral")
        /\ (FCmp(computed.smileValue, F15) > 0) =>
                (stats.status = "Radiant" /\ stats.emotion = "Happy")
        /\ (FCmp(computed.smileValue, F5) < 0) =>
                (stats.status = "Neutral" /\ stats.emotion = "Sad/Focused")
        /\ (computed.smileValue = F5) =>
                (stats.status = "Neutral" /\ stats.emotion = "Neutral")

C4_Witness ==
    /\ computed.face
    /\ computed.smileValue = F15
    /\ stats.status = "Neutral"
    /\ stats.emotion = "Neutral"

dLeft(landmarks) == FSub(Coord(landmarks.pt[1].x), Coord(landmarks.pt[33].x))
dRight(landmarks) == FSub(Coord(landmarks.pt[263].x), Coord(landmarks.pt[1].x))

SpecMouth(landmarks) ==
    /\ landmarks.pt[61] = [x |-> 40, y |-> 60]
    /\ landmarks.pt[291] = [x |-> 60, y |-> 60]
    /\ landmarks.pt[13] = [x |-> 50, y |-> 58]
    /\ landmarks.pt[14] = [x |-> 50, y |-> 62]

\* C6: for leftMouth=(0.40,0.60), rightMouth=(0.60,0.60), topLip=(0.50,0.58),
\* bottomLip=(0.50,0.62) the result is smileLevel 52, Radiant, Happy.
C6_SpecScenario ==
    (computed.face /\ SpecMouth(computed.landmarks)) =>
        /\ stats.smileLevel = 52
        /\ stats.status = "Radiant"
        /\ stats.emotion = "Happy"

\* C7: perfection is the floor of symmetryScore * 0.7 + smileValue * 0.3,
\* taken from the unfloored scores of the same frame; symmetryScore 100 and
\* smileValue 52 give 85.
C7_Perfection ==
    computed.face =>
        /\ stats.perfection =
              FFloor(FAdd(FMul(computed.symmetryScore, F0p7),
                          FMul(computed.smileValue, F0p3)))
        /\ (computed.symmetryScore = F100 /\ computed.smileValue = FInt(52)) =>
              stats.perfection = 85

C7_Witness ==
    /\ computed.face
    /\ computed.symmetryScore = F100
    /\ computed.smileValue = FInt(52)
    /\ stats.perfection = 85

\* C8: two runs of the callback on identical landmark sets write identical
\* stats, whatever the stats displayed before and the state of the toggle.
C8_SameLandmarksSameStats ==
    (computed.face /\ sample.face /\ sample.landmarks = computed.landmarks) =>
        sample.stats = stats

\* two runs on the same landmarks: the toggles they found differ, so they
\* are two runs; the earlier one found the placeholder and replaced it, so
\* the later one found other stats
C8_Witness ==
    /\ computed.face
    /\ sample.face
    /\ sample.landmarks = computed.landmarks
    /\ sample.before = InitialStats
    /\ sample.mesh # computed.mesh
    /\ sample.stats = stats

InFlight == {i \in 1..Len(pipes) : pipes[i].st \in {"sent", "stale"}}

\* C9: at most one FaceMesh/Camera pipeline delivers results, at most one
\* frame is in flight, and a camera frame causes at most one stats update.
C9_OnePipeline ==
    /\ Len(pipes) <= 1
    /\ Cardinality(InFlight) <= 1
    /\ updates <= 1

\* C10: a frame callback draws the mesh connectors only if the current
\* value of isFaceMeshOn is true (stated for the runs that complete).
C10_MeshFollowsToggle == (drew /\ error = "none") => isFaceMeshOn
====
